---------------------------- MODULE Spec2Model ----------------------------
(***************************************************************************)
(* A model of src/find/matchers/lname.rs: the two predicates that test the *)
(* target of a symbolic link against a shell wildcard, LinkNameMatcher     *)
(* (-lname) and CaselessLinkNameMatcher (-ilname), their shared helper     *)
(* read_link_target, and the library calls they are built from             *)
(* (glob::Pattern::new, glob::Pattern::matches, str::to_lowercase,         *)
(* Path::to_string_lossy), each modelled by what it computes.              *)
(*                                                                         *)
(* A character is a one-character string; the characters outside ASCII and *)
(* the raw byte that is no valid UTF-8 carry a name instead:               *)
(*   "Sigma" U+03A3, "sigma" U+03C3, "fsigma" U+03C2 (final sigma),        *)
(*   "uFFFD" U+FFFD (the replacement character), "xFF" (an invalid byte).  *)
(* A string is a sequence of characters.                                   *)
(***************************************************************************)
EXTENDS Integers, Sequences, FiniteSets, TLC

(***************************************************************************)
(* Characters.                                                             *)
(***************************************************************************)

\* char as u32: the code point, which is what `c >= start && c <= end` compares.
Ord(c) ==
    CASE c = "!" -> 33   [] c = "*" -> 42   [] c = "-" -> 45   [] c = "/" -> 47
      [] c = "?" -> 63   [] c = "A" -> 65   [] c = "B" -> 66   [] c = "C" -> 67
      [] c = "[" -> 91   [] c = "]" -> 93   [] c = "a" -> 97   [] c = "b" -> 98
      [] c = "c" -> 99   [] c = "d" -> 100  [] c = "x" -> 120
      [] c = "Sigma" -> 931  [] c = "fsigma" -> 962  [] c = "sigma" -> 963
      [] c = "uFFFD" -> 65533

\* char::is_cased, as str::to_lowercase asks it around a capital sigma.
is_cased(c) ==
    c \in {"A", "B", "C", "a", "b", "c", "d", "x", "Sigma", "sigma", "fsigma"}

\* char::to_lowercase for every character but the capital sigma.
char_to_lowercase(c) ==
    CASE c = "A" -> "a" [] c = "B" -> "b" [] c = "C" -> "c" [] OTHER -> c

\* str::to_lowercase, character by character. The capital sigma is the one
\* character whose lowercase depends on its place: the final form when a cased
\* letter precedes it and none follows it (none of the characters above is
\* case-ignorable, so the neighbours are the adjacent characters).
to_lowercase(s) ==
    [i \in 1..Len(s) |->
        IF s[i] = "Sigma"
        THEN LET before == i > 1 /\ is_cased(s[i - 1])
                 after  == i < Len(s) /\ is_cased(s[i + 1])
             IN  IF before /\ ~after THEN "fsigma" ELSE "sigma"
        ELSE char_to_lowercase(s[i])]

\* Path::to_string_lossy: a byte that is no valid UTF-8 becomes U+FFFD.
to_string_lossy(path) ==
    [i \in 1..Len(path) |-> IF path[i] = "xFF" THEN "uFFFD" ELSE path[i]]

\* std::path::is_separator (the Unix build; the model has no backslash).
is_separator(c) == c = "/"

(***************************************************************************)
(* glob::Pattern: the compiled form is a sequence of tokens.               *)
(***************************************************************************)

Char(c)              == [type |-> "Char", c |-> c, cs |-> <<>>]
AnyChar              == [type |-> "AnyChar", c |-> "", cs |-> <<>>]
AnySequence          == [type |-> "AnySequence", c |-> "", cs |-> <<>>]
AnyRecursiveSequence == [type |-> "AnyRecursiveSequence", c |-> "", cs |-> <<>>]
AnyWithin(cs)        == [type |-> "AnyWithin", c |-> "", cs |-> cs]
AnyExcept(cs)        == [type |-> "AnyExcept", c |-> "", cs |-> cs]

SingleChar(c)         == [type |-> "SingleChar", start |-> c, end |-> c]
CharRange(start, end) == [type |-> "CharRange", start |-> start, end |-> end]

\* Result<Pattern, PatternError>
Ok(tokens)   == [ok |-> TRUE, tokens |-> tokens]
PatternError == [ok |-> FALSE, tokens |-> <<>>]

\* glob's parse_char_specifiers: `a-c` is a range, anything else a single
\* character.
RECURSIVE parse_char_specifiers(_)
parse_char_specifiers(s) ==
    IF s = <<>> THEN <<>>
    ELSE IF Len(s) >= 3 /\ s[2] = "-"
         THEN <<CharRange(s[1], s[3])>> \o parse_char_specifiers(SubSeq(s, 4, Len(s)))
         ELSE <<SingleChar(s[1])>> \o parse_char_specifiers(Tail(s))

\* chars[from..].iter().position(|x| *x == ']'), as an index of chars; 0 for None.
RECURSIVE position_of_bracket(_, _)
position_of_bracket(chars, from) ==
    IF from > Len(chars) THEN 0
    ELSE IF chars[from] = "]" THEN from
    ELSE position_of_bracket(chars, from + 1)

\* The index after the run of `*` that starts at i.
RECURSIVE end_of_stars(_, _)
end_of_stars(chars, i) ==
    IF i <= Len(chars) /\ chars[i] = "*" THEN end_of_stars(chars, i + 1) ELSE i

\* The loop of Pattern::new, from index i (1-based) of chars with the tokens
\* pushed so far.
RECURSIVE parse_from(_, _, _)
parse_from(chars, i, tokens) ==
    IF i > Len(chars) THEN Ok(tokens)
    ELSE CASE chars[i] = "?" -> parse_from(chars, i + 1, Append(tokens, AnyChar))
           [] chars[i] = "*" ->
                LET j     == end_of_stars(chars, i)
                    count == j - i
                    n     == Len(tokens)
                    push  == IF n > 1 /\ tokens[n] = AnyRecursiveSequence
                             THEN tokens
                             ELSE Append(tokens, AnyRecursiveSequence)
                IN  IF count > 2 THEN PatternError
                    ELSE IF count = 2
                    THEN IF j = 3 \/ is_separator(chars[i - 1])
                         THEN IF j <= Len(chars) /\ is_separator(chars[j])
                              THEN parse_from(chars, j + 1, push)
                              ELSE IF j = Len(chars) + 1
                              THEN parse_from(chars, j, push)
                              ELSE PatternError
                         ELSE PatternError
                    ELSE parse_from(chars, j, Append(tokens, AnySequence))
           [] chars[i] = "[" ->
                IF i + 3 <= Len(chars) /\ chars[i + 1] = "!"
                THEN LET k == position_of_bracket(chars, i + 3)
                     IN  IF k = 0 THEN PatternError
                         ELSE parse_from(chars, k + 1,
                                Append(tokens,
                                  AnyExcept(parse_char_specifiers(SubSeq(chars, i + 2, k - 1)))))
                ELSE IF i + 2 <= Len(chars) /\ chars[i + 1] # "!"
                THEN LET k == position_of_bracket(chars, i + 2)
                     IN  IF k = 0 THEN PatternError
                         ELSE parse_from(chars, k + 1,
                                Append(tokens,
                                  AnyWithin(parse_char_specifiers(SubSeq(chars, i + 1, k - 1)))))
                ELSE PatternError
           [] OTHER -> parse_from(chars, i + 1, Append(tokens, Char(chars[i])))

\* glob::Pattern::new
Pattern_new(pattern) == parse_from(pattern, 1, <<>>)

\* glob's in_char_specifiers under MatchOptions::new() (case_sensitive).
in_char_specifiers(specifiers, c) ==
    \E k \in 1..Len(specifiers) :
        IF specifiers[k].type = "SingleChar"
        THEN c = specifiers[k].start
        ELSE Ord(c) >= Ord(specifiers[k].start) /\ Ord(c) <= Ord(specifiers[k].end)

\* One token other than a sequence against one character.
token_accepts(token, c) ==
    CASE token.type = "AnyChar"   -> TRUE
      [] token.type = "AnyWithin" -> in_char_specifiers(token.cs, c)
      [] token.type = "AnyExcept" -> ~in_char_specifiers(token.cs, c)
      [] token.type = "Char"      -> c = token.c

\* Mutant of end_of_pattern: text left over is accepted.
end_of_pattern_unanchored(file, pos) == "Match"

\* What is left of the text once the pattern is used up: `file.next().is_none()`.
end_of_pattern(file, pos) ==
    IF pos > Len(file) THEN "Match" ELSE "SubPatternDoesntMatch"

\* glob's Pattern::matches_from under MatchOptions::new() (case_sensitive, no
\* require_literal_separator, no require_literal_leading_dot): the tokens from
\* index i against the text from index pos. seq_loop is its `while let Some(c)`
\* loop inside a sequence token.
RECURSIVE matches_from(_, _, _, _, _)
RECURSIVE seq_loop(_, _, _, _, _)
matches_from(follows_separator, file, pos, tokens, i) ==
    IF i > Len(tokens) THEN end_of_pattern(file, pos)
    ELSE IF tokens[i].type \in {"AnySequence", "AnyRecursiveSequence"}
    THEN LET m == matches_from(follows_separator, file, pos, tokens, i + 1)
         IN  IF m # "SubPatternDoesntMatch" THEN m
             ELSE seq_loop(follows_separator, file, pos, tokens, i)
    ELSE IF pos > Len(file) THEN "EntirePatternDoesntMatch"
    ELSE IF ~token_accepts(tokens[i], file[pos]) THEN "SubPatternDoesntMatch"
    ELSE matches_from(is_separator(file[pos]), file, pos + 1, tokens, i + 1)

seq_loop(follows_separator, file, pos, tokens, i) ==
    IF pos > Len(file)
    THEN matches_from(follows_separator, file, pos, tokens, i + 1)
    ELSE LET sep == is_separator(file[pos])
         IN  IF tokens[i].type = "AnyRecursiveSequence" /\ ~sep
             THEN seq_loop(sep, file, pos + 1, tokens, i)
             ELSE LET m == matches_from(sep, file, pos + 1, tokens, i + 1)
                  IN  IF m # "SubPatternDoesntMatch" THEN m
                      ELSE seq_loop(sep, file, pos + 1, tokens, i)

\* glob::Pattern::matches
Pattern_matches(tokens, str) == matches_from(TRUE, str, 1, tokens, 1) = "Match"

(***************************************************************************)
(* The matchers (lname.rs).                                                *)
(***************************************************************************)

\* io::Result<PathBuf> of Path::read_link, and Option<PathBuf>.
NoPath         == <<>>
ReadOk(target) == [ok |-> TRUE, target |-> target, kind |-> "none"]
ReadErr(kind)  == [ok |-> FALSE, target |-> NoPath, kind |-> kind]
Some(target)   == [some |-> TRUE, target |-> target]
None           == [some |-> FALSE, target |-> NoPath]

\* Mutants of error_is_shown: every failure is shown; none is.
error_is_always_shown(kind) == TRUE
error_is_never_shown(kind)  == FALSE

\* read_link_target, line 22: which failures of the link read are shown.
error_is_shown(kind) == kind # "InvalidInput"

\* read_link_target, the value it returns for a result of the link read.
read_link_target(result) == IF result.ok THEN Some(result.target) ELSE None

\* The line read_link_target writes: "Error reading target of {path}: {err}".
Diagnostic(path, kind) == [path |-> path, err |-> kind]

\* Result<Self, PatternError> of the two constructors.
NoPattern      == <<>>
Matcher(kind, tokens) == [state |-> "ok", kind |-> kind, pattern |-> tokens]
Unconstructed  == [state |-> "none", kind |-> "none", pattern |-> NoPattern]
Failed         == [state |-> "PatternError", kind |-> "none", pattern |-> NoPattern]

\* Mutant of LinkNameMatcher_new: a pattern that does not compile is taken as
\* the empty pattern.
LinkNameMatcher_new_unchecked(pattern_string) ==
    Matcher("LinkNameMatcher", Pattern_new(pattern_string).tokens)

\* LinkNameMatcher::new
LinkNameMatcher_new(pattern_string) ==
    LET p == Pattern_new(pattern_string)
    IN  IF p.ok THEN Matcher("LinkNameMatcher", p.tokens) ELSE Failed

\* Mutant of caseless_pattern_string: the pattern is compiled as typed.
pattern_string_as_typed(pattern_string) == pattern_string

\* The string CaselessLinkNameMatcher::new compiles.
caseless_pattern_string(pattern_string) == to_lowercase(pattern_string)

\* CaselessLinkNameMatcher::new
CaselessLinkNameMatcher_new(pattern_string) ==
    LET p == Pattern_new(caseless_pattern_string(pattern_string))
    IN  IF p.ok THEN Matcher("CaselessLinkNameMatcher", p.tokens) ELSE Failed

\* Mutant of link_name_text: the target is lowercased, as the caseless
\* matcher does.
link_name_text_lowercased(target) == to_lowercase(to_string_lossy(target))

\* The text LinkNameMatcher::matches hands to the pattern.
link_name_text(target) == to_string_lossy(target)

\* <LinkNameMatcher as Matcher>::matches, after read_link_target.
LinkNameMatcher_matches(self, target) ==
    IF target.some
    THEN Pattern_matches(self.pattern, link_name_text(target.target))
    ELSE FALSE

\* <CaselessLinkNameMatcher as Matcher>::matches, after read_link_target.
CaselessLinkNameMatcher_matches(self, target) ==
    IF target.some
    THEN Pattern_matches(self.pattern, to_lowercase(to_string_lossy(target.target)))
    ELSE FALSE

\* The dyn Matcher call and the constructor chosen by the predicate's name.
new(kind, pattern_string) ==
    IF kind = "LinkNameMatcher"
    THEN LinkNameMatcher_new(pattern_string)
    ELSE CaselessLinkNameMatcher_new(pattern_string)

matches(self, target) ==
    IF self.kind = "LinkNameMatcher"
    THEN LinkNameMatcher_matches(self, target)
    ELSE CaselessLinkNameMatcher_matches(self, target)

\* Mutant of self_after_matches: the call moves the pattern out of the matcher.
self_without_pattern(self) == [self EXCEPT !.pattern = NoPattern]

\* Mutant of io_after_matches: the call writes to the evaluation context.
io_written(io) == "written"

\* Mutant of frame_of: the callers keep `target` in one shared place.
shared_frame(caller) == "t1"

\* `&self`: the matcher as a call to matches leaves it.
self_after_matches(self) == self

\* `_: &mut MatcherIO`: the evaluation context as a call to matches leaves it.
io_after_matches(io) == io

\* The stack frame that holds a caller's `target` binding: its own.
frame_of(caller) == caller

(***************************************************************************)
(* Inputs and bounds.                                                      *)
(***************************************************************************)

MaxCalls      == 3   \* calls to matches in one run
MaxFsChanges  == 1   \* changes of the filesystem in one run
MaxPatternLen == 2   \* every pattern string up to this length is tried
MaxTargetLen  == 2   \* every link target up to this length is tried

Callers == {"t1", "t2"}
Entries == {"link-f", "other"}
Kinds   == {"LinkNameMatcher", "CaselessLinkNameMatcher"}

Strings(alphabet, n) == UNION {[1..k -> alphabet] : k \in 0..n}

PatternAlphabet == {"a", "A", "?", "*", "[", "]", "!", "-", "/"}
TargetAlphabet  == {"a", "A", "b", "B", "/"}

\* The patterns and targets of the tests and of the documentation, and some
\* that reach what the short strings do not.
ExamplePatterns ==
    { <<"a","b","?","b","c">>, <<"A","B","?","B","C">>, <<"A","b","B","?","c">>,
      <<"a","b","b","?","c">>, <<"[","a","b","c">>, <<"a","b","c">>,
      <<"[","A","-","a","]">>, <<"[","!","a","]">>, <<"[","a","B","]">>,
      <<"a","*","c">>, <<"*","*","/","a">>, <<"A","Sigma">>, <<"a","sigma">>,
      <<"*","Sigma">>, <<"[","a","-","b","]">>, <<"[","!","A","-","B","]">>,
      <<"*","a","*">>, <<"a","/","*","*","/","b">>, <<"*","*","/","*","*","/","a">>,
      <<"[","a","*","]">>, <<"[","]","]">>, <<"*","*","*">> }
ExampleTargets ==
    { <<"a","b","b","b","c">>, <<"a","b","c">>, <<"a","b","c","d">>,
      <<"x","a","b","c">>, <<"A","B","B","B","C">>, <<"a","/","c">>,
      <<"A","Sigma">>, <<"a","sigma">>, <<"xFF">>, <<"a","/","x","/","b">>,
      <<"x","/","a">>, <<"]">>, <<"*">> }

PatternInputs == Strings(PatternAlphabet, MaxPatternLen) \cup ExamplePatterns
TargetInputs  == Strings(TargetAlphabet, MaxTargetLen) \cup ExampleTargets

\* What read_link answers for a path: the target of a symbolic link,
\* InvalidInput (EINVAL) for what is no symbolic link, or another error
\* (EACCES, ENOENT) for a link that cannot be read.
Symlink(target) == ReadOk(target)
NotASymlink     == ReadErr("InvalidInput")

\* The small filesystem and command lines of the concurrent runs.
RunPatterns == { <<"a","b","?","b","c">>, <<"A","b","B","?","c">>, <<"[","a","b","c">>,
                 <<"*">> }
RunTargets  == { <<"A","B","B","B","C">> }
RunEntryStates ==
    {Symlink(t) : t \in RunTargets} \cup {NotASymlink, ReadErr("PermissionDenied")}

\* The filesystem of the tests: test_data/links/link-f -> abbbc, beside a
\* regular file.
TestFs ==
    [e \in Entries |->
        IF e = "link-f" THEN Symlink(<<"a","b","b","b","c">>) ELSE NotASymlink]

\* The MatcherIO of the run, before any call.
InitialIO == "deps.new_matcher_io()"

(***************************************************************************)
(* State.                                                                  *)
(***************************************************************************)

VARIABLES
    args,        \* the predicate's name and pattern string, from the command line
    matcher,     \* the matcher instance (Unconstructed until `new` has run)
    io,          \* the MatcherIO the callers pass to matches
    fs,          \* the filesystem: what read_link answers for each entry
    fs_changes,  \* how often the filesystem has changed
    stderr,      \* the diagnostics written so far
    stderr_ok,   \* whether a write to stderr succeeds
    frames,      \* each caller's call to matches: where it is, and its locals
    calls,       \* calls to matches begun
    read_errors, \* link reads that failed with something else than InvalidInput
    log          \* the calls that returned: which call (in the order they
                 \* began) for which entry, what the link read answered and
                 \* after how many changes of the filesystem, the boolean,
                 \* and its place in the order of the returns

vars == <<args, matcher, io, fs, fs_changes, stderr, stderr_ok, frames, calls,
          read_errors, log>>

Idle == [pc |-> "idle", call |-> 0, entry |-> "none", target |-> None,
         read |-> ReadErr("none"), epoch |-> 0]

TypeOK ==
    /\ args.kind \in Kinds
    /\ matcher.state \in {"none", "ok", "PatternError"}
    /\ fs \in [Entries -> [ok : BOOLEAN, target : Seq(STRING), kind : STRING]]
    /\ stderr_ok \in BOOLEAN
    /\ calls \in 0..MaxCalls
    /\ \A t \in Callers :
         frames[t].pc \in {"idle", "read_link", "report", "matching", "panicked"}

(***************************************************************************)
(* Operations.                                                             *)
(***************************************************************************)

\* LinkNameMatcher::new / CaselessLinkNameMatcher::new on the command line's
\* pattern.
Construct ==
    /\ matcher.state = "none"
    /\ matcher' = new(args.kind, args.pattern_string)
    /\ UNCHANGED <<args, io, fs, fs_changes, stderr, stderr_ok, frames, calls,
                   read_errors, log>>

\* A caller enters matches(file_info, io) for an entry.
Call(t, e) ==
    /\ matcher.state = "ok"
    /\ frames[t].pc = "idle"
    /\ calls < MaxCalls
    /\ calls' = calls + 1
    /\ frames' = [frames EXCEPT ![t] = [Idle EXCEPT !.pc = "read_link",
                                                   !.call = calls + 1, !.entry = e]]
    /\ UNCHANGED <<args, matcher, io, fs, fs_changes, stderr, stderr_ok,
                   read_errors, log>>

\* read_link_target: file_info.path().read_link() returns Ok(target).
ReadLinkOk(t) ==
    /\ frames[t].pc = "read_link"
    /\ fs[frames[t].entry].ok
    /\ frames' = [frames EXCEPT
                    ![t].read = fs[frames[t].entry],
                    ![t].epoch = fs_changes,
                    ![t].pc = "matching",
                    ![frame_of(t)].target = read_link_target(fs[frames[t].entry])]
    /\ UNCHANGED <<args, matcher, io, fs, fs_changes, stderr, stderr_ok, calls,
                   read_errors, log>>

\* read_link_target: file_info.path().read_link() returns Err(err).
ReadLinkErr(t) ==
    /\ frames[t].pc = "read_link"
    /\ ~fs[frames[t].entry].ok
    /\ LET result == fs[frames[t].entry]
       IN  /\ frames' = [frames EXCEPT
                    ![t].read = result,
                    ![t].epoch = fs_changes,
                    ![t].pc = IF error_is_shown(result.kind) THEN "report" ELSE "matching",
                    ![frame_of(t)].target = read_link_target(result)]
           /\ read_errors' = IF result.kind # "InvalidInput"
                             THEN read_errors + 1 ELSE read_errors
    /\ UNCHANGED <<args, matcher, io, fs, fs_changes, stderr, stderr_ok, calls, log>>

\* read_link_target: writeln!(&mut stderr(), ...) succeeds.
Report(t) ==
    /\ frames[t].pc = "report"
    /\ stderr_ok
    /\ stderr' = Append(stderr, Diagnostic(frames[t].entry, frames[t].read.kind))
    /\ frames' = [frames EXCEPT ![t].pc = "matching"]
    /\ UNCHANGED <<args, matcher, io, fs, fs_changes, stderr_ok, calls,
                   read_errors, log>>

\* read_link_target: writeln!(&mut stderr(), ...) fails and .unwrap() panics.
ReportPanics(t) ==
    /\ frames[t].pc = "report"
    /\ ~stderr_ok
    /\ frames' = [frames EXCEPT ![t].pc = "panicked"]
    /\ UNCHANGED <<args, matcher, io, fs, fs_changes, stderr, stderr_ok, calls,
                   read_errors, log>>

\* matches tests the target and returns its boolean.
Return(t) ==
    /\ frames[t].pc = "matching"
    /\ log' = log \cup {[call |-> frames[t].call, entry |-> frames[t].entry,
                         read |-> frames[t].read, epoch |-> frames[t].epoch,
                         result |-> matches(matcher, frames[frame_of(t)].target),
                         returned |-> Cardinality(log) + 1]}
    /\ matcher' = self_after_matches(matcher)
    /\ io' = io_after_matches(io)
    /\ frames' = [frames EXCEPT ![t] = Idle]
    /\ UNCHANGED <<args, fs, fs_changes, stderr, stderr_ok, calls, read_errors>>

\* The filesystem changes under the search: an entry is replaced (in the runs,
\* the path beside link-f).
SetEntry(e, st) ==
    /\ fs_changes < MaxFsChanges
    /\ fs[e] # st
    /\ fs' = [fs EXCEPT ![e] = st]
    /\ fs_changes' = fs_changes + 1
    /\ UNCHANGED <<args, matcher, io, stderr, stderr_ok, frames, calls,
                   read_errors, log>>

\* stderr stops taking writes (a closed pipe, a full disk).
StderrBreaks ==
    /\ stderr_ok
    /\ stderr_ok' = FALSE
    /\ UNCHANGED <<args, matcher, io, fs, fs_changes, stderr, frames, calls,
                   read_errors, log>>

Start ==
    /\ matcher = Unconstructed
    /\ io = InitialIO
    /\ fs_changes = 0
    /\ stderr = <<>>
    /\ stderr_ok = TRUE
    /\ frames = [t \in Callers |-> Idle]
    /\ calls = 0
    /\ read_errors = 0
    /\ log = {}

\* A search that several callers run over the filesystem of the tests, which
\* may change under them.
Init ==
    /\ args \in [kind : Kinds, pattern_string : RunPatterns]
    /\ fs = TestFs
    /\ Start

Next ==
    \/ Construct
    \/ \E t \in Callers, e \in Entries : Call(t, e)
    \/ \E t \in Callers : ReadLinkOk(t)
    \/ \E t \in Callers : ReadLinkErr(t)
    \/ \E t \in Callers : Report(t)
    \/ \E t \in Callers : ReportPanics(t)
    \/ \E t \in Callers : Return(t)
    \/ \E st \in RunEntryStates : SetEntry("other", st)
    \/ StderrBreaks

Spec == Init /\ [][Next]_vars

\* One caller, one entry, one call, over every pattern and every link target
\* within the bounds.
InitEach ==
    /\ args \in [kind : Kinds, pattern_string : PatternInputs]
    /\ \E target \in TargetInputs :
         fs = [e \in Entries |-> IF e = "link-f" THEN Symlink(target) ELSE NotASymlink]
    /\ Start

NextEach ==
    \/ Construct
    \/ log = {} /\ Call("t1", "link-f")
    \/ ReadLinkOk("t1")
    \/ Return("t1")

SpecEach == InitEach /\ [][NextEach]_vars

(***************************************************************************)
(* Properties of the concurrent runs (Spec).                               *)
(***************************************************************************)

Shown(read) == ~read.ok /\ read.kind # "InvalidInput"

\* The callers that are at one of the places pcs.
At(pcs) == {t \in Callers : frames[t].pc \in pcs}

\* C1: a call to matches for an entry that is no symbolic link (the link read
\* fails with InvalidInput) returns false whatever the pattern and either
\* variant, and writes nothing: it never reaches the write to stderr, and no
\* line of stderr reports InvalidInput.
C1_NotASymlinkIsFalseAndSilent ==
    /\ \A r \in log : r.read = NotASymlink => r.result = FALSE
    /\ \A t \in Callers :
         frames[t].read = NotASymlink => frames[t].pc \notin {"report", "panicked"}
    /\ \A i \in 1..Len(stderr) : stderr[i].err # "InvalidInput"
    /\ Len(stderr) <= read_errors

\* C1's case: a call for a non-symlink returned, under the pattern `*`, which
\* matches every link target.
C1_Witness ==
    /\ args.pattern_string = <<"*">>
    /\ \E r \in log : r.read = NotASymlink /\ r.result = FALSE

\* C2 as claimed: a link read that fails otherwise gets its one diagnostic, the
\* call returns false, and no call ever aborts.
C2_NeverAborts ==
    /\ \A r \in log : Shown(r.read) => r.result = FALSE
    /\ Len(stderr) + Cardinality(At({"report"})) = read_errors
    /\ \A t \in Callers : frames[t].pc # "panicked"

\* C2 as amended: every such failure is reported once, by a line that names
\* the entry and the error, unless the write to stderr fails, and then that
\* call panics. A call that returns after such a failure has its line in
\* stderr and returns false.
C2_ReportedOnceOrPanics ==
    /\ \A r \in log :
         Shown(r.read) =>
            /\ r.result = FALSE
            /\ \E i \in 1..Len(stderr) : stderr[i] = Diagnostic(r.entry, r.read.kind)
    /\ Len(stderr) + Cardinality(At({"report", "panicked"})) = read_errors
    /\ \A i \in 1..Len(stderr) :
         stderr[i].path \in Entries /\ stderr[i].err \in {"PermissionDenied", "NotFound"}
    /\ \A t \in Callers :
         frames[t].pc = "panicked" => ~stderr_ok /\ Shown(frames[t].read)

\* C2's case: a call whose link read failed with PermissionDenied returned, and
\* a later call returned too.
C2_Witness ==
    \E r1, r2 \in log :
        /\ Shown(r1.read) /\ r1.result = FALSE
        /\ r2.call > r1.call

\* C7: two calls to matches for the same entry with nothing changed in the
\* filesystem between their link reads return the same boolean.
C7_Idempotent ==
    \A r1, r2 \in log :
        (r1.entry = r2.entry /\ r1.epoch = r2.epoch) => r1.result = r2.result

\* C7's case: the same matching link evaluated twice, the filesystem unchanged.
C7_Witness ==
    \E r1, r2 \in log :
        /\ r1.call # r2.call
        /\ r1.entry = r2.entry /\ r1.epoch = r2.epoch
        /\ r1.result = TRUE /\ r2.result = TRUE

\* C8: whatever the interleaving, a call returns what a matcher built from the
\* same command line returns for what the link read answered, evaluated alone.
C8_AsIfSequential ==
    \A r \in log :
        r.result = matches(new(args.kind, args.pattern_string), read_link_target(r.read))

\* C8's case: a call for one entry began and returned while a call for
\* another entry was running on the same matcher, and one matched while the
\* other did not.
C8_Witness ==
    \E r1, r2 \in log :
        /\ r1.call < r2.call /\ r2.returned < r1.returned
        /\ r1.entry # r2.entry
        /\ r1.read.ok /\ r2.read.ok
        /\ r1.result # r2.result

\* C9: once constructed, the matcher holds the pattern that `new` compiled from
\* the command line, whatever calls have been made, and the MatcherIO handed
\* to matches is as it was.
C9_PatternFixed ==
    /\ matcher.state # "none" => matcher = new(args.kind, args.pattern_string)
    /\ io = InitialIO

\* C9's case: a matching link, a non-matching link and an entry whose link
\* read failed have all been evaluated.
C9_Witness ==
    \E r1, r2, r3 \in log :
        /\ r1.result = TRUE
        /\ r2.read.ok /\ r2.result = FALSE
        /\ ~r3.read.ok

(***************************************************************************)
(* Properties of one call, over every pattern and target (SpecEach).       *)
(***************************************************************************)

\* What a wildcard denotes, stated on the tokens without the matcher's search:
\* the text splits into one piece per token. `?`, a class and a literal take
\* one character; `*` takes any run; `**` takes nothing, a run that ends with
\* a separator, or all that is left.
InClass(cs, c) ==
    \E k \in 1..Len(cs) : Ord(cs[k].start) <= Ord(c) /\ Ord(c) <= Ord(cs[k].end)

TakesChar(token, c) ==
    \/ token.type = "AnyChar"
    \/ token.type = "Char" /\ token.c = c
    \/ token.type = "AnyWithin" /\ InClass(token.cs, c)
    \/ token.type = "AnyExcept" /\ ~InClass(token.cs, c)

RECURSIVE Denotes(_, _)
Denotes(tokens, text) ==
    IF tokens = <<>> THEN text = <<>>
    ELSE IF Head(tokens).type = "AnySequence"
    THEN \E k \in 0..Len(text) : Denotes(Tail(tokens), SubSeq(text, k + 1, Len(text)))
    ELSE IF Head(tokens).type = "AnyRecursiveSequence"
    THEN \E k \in 0..Len(text) :
            /\ k = 0 \/ k = Len(text) \/ text[k] = "/"
            /\ Denotes(Tail(tokens), SubSeq(text, k + 1, Len(text)))
    ELSE /\ text # <<>>
         /\ TakesChar(Head(tokens), Head(text))
         /\ Denotes(Tail(tokens), Tail(text))

Has(s, chars) == \E i \in 1..Len(s) : s[i] \in chars
Only(s, chars) == \A i \in 1..Len(s) : s[i] \in chars

\* The text and the pattern string that the constructed matcher compares: as
\* they are, or both in lowercase.
ComparedText(target) ==
    IF args.kind = "LinkNameMatcher"
    THEN to_string_lossy(target)
    ELSE to_lowercase(to_string_lossy(target))

ComparedPattern ==
    IF args.kind = "LinkNameMatcher"
    THEN args.pattern_string
    ELSE to_lowercase(args.pattern_string)

abbbc == <<"a","b","b","b","c">>

\* C3: for a symbolic link, LinkNameMatcher returns true exactly when the text
\* of the target, as it is, is in what the compiled pattern denotes, as it is:
\* `ab?bc` matches the target abbbc and `AB?BC` does not.
C3_CaseSensitive ==
    \A r \in log :
        (args.kind = "LinkNameMatcher" /\ r.read.ok) =>
            /\ r.result = Denotes(matcher.pattern, to_string_lossy(r.read.target))
            /\ (args.pattern_string = <<"a","b","?","b","c">> /\ r.read.target = abbbc)
                  => r.result = TRUE
            /\ (args.pattern_string = <<"A","B","?","B","C">> /\ r.read.target = abbbc)
                  => r.result = FALSE
            /\ (Only(args.pattern_string, {"a", "A", "b", "B", "c", "C"})
                  /\ Only(r.read.target, {"a", "A", "b", "B", "c", "C"}))
                  => r.result = (args.pattern_string = r.read.target)

\* C3's case: the test of lname.rs, `ab?bc` against link-f -> abbbc.
C3_Witness ==
    /\ args = [kind |-> "LinkNameMatcher", pattern_string |-> <<"a","b","?","b","c">>]
    /\ \E r \in log : r.read = Symlink(abbbc) /\ r.result = TRUE

\* The pattern strings that differ from s in the case of letters only.
CaseForms(c) ==
    CASE c \in {"a", "A"} -> {"a", "A"}
      [] c \in {"b", "B"} -> {"b", "B"}
      [] c \in {"c", "C"} -> {"c", "C"}
      [] c \in {"sigma", "Sigma"} -> {"sigma", "Sigma"}
      [] OTHER -> {c}

CaseVariants(s) == {q \in [1..Len(s) -> UNION {CaseForms(s[i]) : i \in 1..Len(s)}] :
                        \A i \in 1..Len(s) : q[i] \in CaseForms(s[i])}

\* C4: CaselessLinkNameMatcher returns, for a symbolic link, what a caseless
\* matcher built from any pattern string that differs only in the case of
\* letters returns, and that is whether the lowercased target is in what the
\* lowercased pattern denotes.
C4_PatternCaseIrrelevant ==
    \A r \in log :
        (args.kind = "CaselessLinkNameMatcher" /\ r.read.ok) =>
            /\ r.result = Denotes(Pattern_new(to_lowercase(args.pattern_string)).tokens,
                                  to_lowercase(to_string_lossy(r.read.target)))
            /\ \A q \in CaseVariants(args.pattern_string) :
                 LET other == CaselessLinkNameMatcher_new(q)
                 IN  /\ other.state = "ok"
                     /\ CaselessLinkNameMatcher_matches(other, Some(r.read.target)) = r.result

Ascii(s) == Only(s, {"!", "*", "-", "/", "?", "A", "B", "C", "[", "]", "a", "b", "c", "d", "x"})

\* C4 within ASCII, where the code does what C4 says.
C4_PatternCaseIrrelevantInAscii ==
    \A r \in log :
        (args.kind = "CaselessLinkNameMatcher" /\ r.read.ok /\ Ascii(args.pattern_string)) =>
            \A q \in CaseVariants(args.pattern_string) :
                 LET other == CaselessLinkNameMatcher_new(q)
                 IN  /\ other.state = "ok"
                     /\ CaselessLinkNameMatcher_matches(other, Some(r.read.target)) = r.result

\* C5: construction fails with PatternError, and leaves no matcher to call,
\* for a pattern string that is no wildcard: `[abc`, any string with a `[` and
\* no `]`, any run of three `*` outside a class; it succeeds for a string
\* without `[` and `*`. No call happens without a matcher, every call on a
\* constructed matcher returns a boolean, and the matcher stays constructed.
C5_PatternErrorOnlyAtConstruction ==
    /\ matcher.state # "none" =>
         /\ (~Has(ComparedPattern, {"[", "*"})) => matcher.state = "ok"
         /\ (Has(ComparedPattern, {"["}) /\ ~Has(ComparedPattern, {"]"}))
               => matcher.state = "PatternError"
         /\ (~Has(ComparedPattern, {"["})
               /\ \E i \in 1..(Len(ComparedPattern) - 2) :
                     Only(SubSeq(ComparedPattern, i, i + 2), {"*"}))
               => matcher.state = "PatternError"
         /\ args.pattern_string = <<"[","a","b","c">> => matcher.state = "PatternError"
    /\ matcher.state # "ok" =>
         /\ matcher.pattern = NoPattern
         /\ calls = 0 /\ log = {}
         /\ \A t \in Callers : frames[t].pc = "idle"
    /\ calls > 0 => matcher.state = "ok"
    /\ \A r \in log : r.result \in BOOLEAN

\* C5's case: the construction from `[abc` has failed.
C5_Witness ==
    /\ args.pattern_string = <<"[","a","b","c">>
    /\ matcher.state = "PatternError"

SequenceTokens == {"AnySequence", "AnyRecursiveSequence"}

\* C6: a match takes the whole target. A pattern of literals matches the
\* target equal to it and no other (`abc` matches neither abcd nor xabc); a
\* pattern without `*` matches only targets of as many characters as it has
\* tokens, so `?` takes exactly one; `*` matches every target, the empty one
\* too; a literal before or after `*` is the first or the last character of
\* the target, the run between them being empty or not.
C6_Anchored ==
    \A r \in log :
        r.read.ok =>
            LET text   == ComparedText(r.read.target)
                tokens == matcher.pattern
                n      == Len(text)
                plain  == Cardinality({i \in 1..Len(tokens) :
                                          tokens[i].type \notin SequenceTokens})
            IN  /\ (~Has(ComparedPattern, {"?", "*", "["}))
                      => r.result = (text = ComparedPattern)
                /\ (args.pattern_string = <<"a","b","c">>
                      /\ r.read.target \in {<<"a","b","c","d">>, <<"x","a","b","c">>})
                      => r.result = FALSE
                /\ (r.result /\ plain = Len(tokens)) => n = Len(tokens)
                /\ r.result => n >= plain
                /\ Only(ComparedPattern, {"?"}) => r.result = (n = Len(ComparedPattern))
                /\ ComparedPattern = <<"*">> => r.result = TRUE
                /\ (Len(ComparedPattern) = 2 /\ ComparedPattern[2] = "*"
                      /\ ~Has(<<ComparedPattern[1]>>, {"?", "*", "["}))
                      => r.result = (n >= 1 /\ text[1] = ComparedPattern[1])
                /\ (Len(ComparedPattern) = 2 /\ ComparedPattern[1] = "*"
                      /\ ~Has(<<ComparedPattern[2]>>, {"?", "*", "["}))
                      => r.result = (n >= 1 /\ text[n] = ComparedPattern[2])

\* C6's case: `abc` against a link to abcd, which it does not match.
C6_Witness ==
    /\ args.pattern_string = <<"a","b","c">>
    /\ \E r \in log : r.read = Symlink(<<"a","b","c","d">>) /\ r.result = FALSE

\* Whether the caseless matcher of the same pattern string accepts what a call
\* of the case-sensitive matcher has accepted.
CaselessAcceptsToo(r) ==
    LET caseless == CaselessLinkNameMatcher_new(args.pattern_string)
    IN  caseless.state = "ok" =>
            CaselessLinkNameMatcher_matches(caseless, read_link_target(r.read))

\* C10 as claimed, on the ASCII pattern strings and targets (where lowercasing
\* goes character by character): whatever LinkNameMatcher accepts,
\* CaselessLinkNameMatcher built from the same pattern string accepts, a
\* pattern such as `[A-a]` included.
C10_CaselessAcceptsMore ==
    \A r \in log :
        ( /\ args.kind = "LinkNameMatcher" /\ r.result
          /\ Ascii(args.pattern_string) /\ Ascii(r.read.target) )
        => CaselessAcceptsToo(r)

\* A compiled pattern with no negated class and no range in a class.
NoRangeNoNegation(tokens) ==
    \A i \in 1..Len(tokens) :
        /\ tokens[i].type # "AnyExcept"
        /\ \A k \in 1..Len(tokens[i].cs) : tokens[i].cs[k].type = "SingleChar"

\* C10 as amended: the same for the patterns whose compiled form has no
\* negated class and no range in a class.
C10_CaselessAcceptsMoreWithoutRanges ==
    \A r \in log :
        ( /\ args.kind = "LinkNameMatcher" /\ r.result
          /\ Ascii(args.pattern_string) /\ Ascii(r.read.target)
          /\ NoRangeNoNegation(matcher.pattern) )
        => CaselessAcceptsToo(r)

\* C10's case: LinkNameMatcher has accepted a target under a pattern with a
\* capital letter in a class of single characters.
C10_Witness ==
    /\ args = [kind |-> "LinkNameMatcher", pattern_string |-> <<"[","a","B","]">>]
    /\ \E r \in log : r.result = TRUE /\ r.read = Symlink(<<"B">>)

=============================================================================
